---- MODULE Spec2Model ----
(***************************************************************************)
(* Token-Picker (src/main.py): a linear script that reads a chain and a    *)
(* risk tier, fetches the market listings, keeps the tokens of the chosen  *)
(* chain that are not stablecoins, filters and scores them for the tier,   *)
(* sorts them by quality score and prints and logs the ten best.           *)
(*                                                                         *)
(* Encoding of the Python values:                                          *)
(*  - a str is a sequence of one-character strings, so that lower(),       *)
(*    strip() and the substring test `a in b` are computed, not assumed;   *)
(*  - a dict entry is [st |-> "val" | "null" | "absent", v |-> value]:     *)
(*    present, present with None, or key missing;                          *)
(*  - money (market_cap, volume_24h) is counted in units of 100,000 USD,   *)
(*    price in cents, percent changes in whole percent, dates in whole     *)
(*    days (date_added is the day number of its YYYY-MM-DD part);          *)
(*  - a float is an exact fraction [n |-> numerator, d |-> denominator];   *)
(*    where the float of a quality score is not its fraction, the side of  *)
(*    the fraction on which it lies (score_rounding) is any one, the same  *)
(*    for the same values (float_error), and counts in the comparisons     *)
(*    of the code at equal fractions;                                      *)
(*  - the clock (today) is the day of its last reading, and a midnight     *)
(*    may pass between any two readings, in a pass of analyze_tokens and   *)
(*    in log_recommendations;                                              *)
(*  - the recommendations file is the sequence of the writes that reached  *)
(*    it, any write being one that may fail;                               *)
(*  - stdout is the sequence of the tokens print_token_info was called     *)
(*    on (printed); when main is aborted by the exception of a print       *)
(*    (outcome "crashed") the last of them is cut off before its price.    *)
(* The listings are taken to carry non-negative amounts, pair counts and   *)
(* ages.                                                                   *)
(***************************************************************************)
EXTENDS Integers, Sequences, FiniteSets, TLC

VARIABLES pc, chain_choice, chain, risk_choice, risk, analyzer, today,
          float_error, fetch_result, all_tokens, filtered_tokens, rejected_stablecoins,
          idx, quality_score, analyzed_tokens, rejected_counts, returns,
          printed, logged, outcome

vars == <<pc, chain_choice, chain, risk_choice, risk, analyzer, today,
          float_error, fetch_result, all_tokens, filtered_tokens, rejected_stablecoins,
          idx, quality_score, analyzed_tokens, rejected_counts, returns,
          printed, logged, outcome>>

----------------------------------------------------------------------------
(* str: lower(), strip(), substring, list membership                       *)

\* str.lower() on one character: the letters A-Z and the capital letters of
\* Latin-1 (the alphabet of the model); every other character of that
\* alphabet is its own lower case
LowerChar(c) ==
  CASE c = "A" -> "a" [] c = "B" -> "b" [] c = "C" -> "c" [] c = "D" -> "d"
    [] c = "E" -> "e" [] c = "F" -> "f" [] c = "G" -> "g" [] c = "H" -> "h"
    [] c = "I" -> "i" [] c = "J" -> "j" [] c = "K" -> "k" [] c = "L" -> "l"
    [] c = "M" -> "m" [] c = "N" -> "n" [] c = "O" -> "o" [] c = "P" -> "p"
    [] c = "Q" -> "q" [] c = "R" -> "r" [] c = "S" -> "s" [] c = "T" -> "t"
    [] c = "U" -> "u" [] c = "V" -> "v" [] c = "W" -> "w" [] c = "X" -> "x"
    [] c = "Y" -> "y" [] c = "Z" -> "z" [] c = "À" -> "à" [] c = "Á" -> "á"
    [] c = "Â" -> "â" [] c = "Ã" -> "ã" [] c = "Ä" -> "ä" [] c = "Å" -> "å"
    [] c = "Æ" -> "æ" [] c = "Ç" -> "ç" [] c = "È" -> "è" [] c = "É" -> "é"
    [] c = "Ê" -> "ê" [] c = "Ë" -> "ë" [] c = "Ì" -> "ì" [] c = "Í" -> "í"
    [] c = "Î" -> "î" [] c = "Ï" -> "ï" [] c = "Ð" -> "ð" [] c = "Ñ" -> "ñ"
    [] c = "Ò" -> "ò" [] c = "Ó" -> "ó" [] c = "Ô" -> "ô" [] c = "Õ" -> "õ"
    [] c = "Ö" -> "ö" [] c = "Ø" -> "ø" [] c = "Ù" -> "ù" [] c = "Ú" -> "ú"
    [] c = "Û" -> "û" [] c = "Ü" -> "ü" [] c = "Ý" -> "ý" [] c = "Þ" -> "þ"
    [] OTHER -> c

Lower(s) == [k \in 1..Len(s) |-> LowerChar(s[k])]

\* the characters str.strip() removes, those for which str.isspace() holds,
\* in Latin-1: space, tab, newline, carriage return, form feed, vertical tab,
\* the four separators 28 to 31, next line (133) and the no-break space (160)
IsSpace(c) ==
  c \in {" ", "\t", "\n", "\r", "\f", "", "", "", "", "",
         "", " "}

RECURSIVE LStrip(_)
LStrip(s) == IF s # <<>> /\ IsSpace(Head(s)) THEN LStrip(Tail(s)) ELSE s

RECURSIVE RStrip(_)
RStrip(s) ==
  IF s # <<>> /\ IsSpace(s[Len(s)]) THEN RStrip(SubSeq(s, 1, Len(s) - 1)) ELSE s

Strip(s) == RStrip(LStrip(s))

\* Python `sub in s` on two str
Contains(sub, s) ==
  \E k \in 0..(Len(s) - Len(sub)) : SubSeq(s, k + 1, k + Len(sub)) = sub

\* Python `x in lst` on a list
InList(x, lst) == \E k \in 1..Len(lst) : lst[k] = x

LowerAll(lst) == [k \in 1..Len(lst) |-> Lower(lst[k])]

----------------------------------------------------------------------------
(* dict entries                                                            *)

Val(v) == [st |-> "val", v |-> v]
NullN == [st |-> "null", v |-> 0]
AbsentN == [st |-> "absent", v |-> 0]
AbsentS == [st |-> "absent", v |-> <<>>]
\* None where a str is expected: no sequence of characters equals it
NoneStr == <<"None">>
NullS == [st |-> "null", v |-> NoneStr]
IsVal(e) == e.st = "val"

----------------------------------------------------------------------------
(* float arithmetic on exact fractions                                     *)

Abs(x) == IF x < 0 THEN -x ELSE x

RECURSIVE Gcd(_, _)
Gcd(a, b) == IF b = 0 THEN a ELSE Gcd(b, a % b)

Rat(n, d) ==
  LET g == Gcd(Abs(n), Abs(d))
      s == IF d < 0 THEN -1 ELSE 1
  IN  [n |-> (s * n) \div g, d |-> (s * d) \div g]

RInt(k) == [n |-> k, d |-> 1]
RAdd(a, b) == Rat(a.n * (b.d \div Gcd(a.d, b.d)) + b.n * (a.d \div Gcd(a.d, b.d)),
                  a.d * (b.d \div Gcd(a.d, b.d)))
RSub(a, b) == RAdd(a, [n |-> -b.n, d |-> b.d])
RMul(a, b) ==
  LET x == Rat(a.n, b.d)
      y == Rat(b.n, a.d)
  IN  Rat(x.n * y.n, x.d * y.d)
RDiv(a, b) == RMul(a, Rat(b.d, b.n))
RAbs(a) == [n |-> Abs(a.n), d |-> a.d]
RLess(a, b) == a.n * b.d < b.n * a.d
RLeq(a, b) == a.n * b.d <= b.n * a.d
RMin(a, b) == IF RLess(b, a) THEN b ELSE a
\* the fraction is a binary fraction, so a float holds it exactly (the
\* numbers of the model are far below 2^53)
RECURSIVE IsPow2(_)
IsPow2(d) == d = 1 \/ (d > 1 /\ d % 2 = 0 /\ IsPow2(d \div 2))
IsDyadic(q) == IsPow2(q.d)
RMax(a, b) == IF RLess(a, b) THEN b ELSE a

----------------------------------------------------------------------------
(* string constants of the program                                         *)

s_stablecoin == <<"s","t","a","b","l","e","c","o","i","n">>
s_stablecoins == <<"s","t","a","b","l","e","c","o","i","n","s">>
s_ethereum == <<"e","t","h","e","r","e","u","m">>
s_eth == <<"e","t","h">>
s_solana == <<"s","o","l","a","n","a">>
s_sol == <<"s","o","l">>
s_market_cap == <<"m","a","r","k","e","t"," ","c","a","p">>
s_volume == <<"v","o","l","u","m","e">>
s_age == <<"a","g","e">>
s_change == <<"c","h","a","n","g","e">>
s_1h == <<"1","h">>
s_24h == <<"2","4","h">>
s_7d == <<"7","d">>
NameEthereum == <<"E","t","h","e","r","e","u","m">>
NameSolana == <<"S","o","l","a","n","a">>

\* is_stablecoin: stablecoin_tags, stable_indicators
stablecoin_tags == << s_stablecoin, s_stablecoins >>
stable_indicators ==
  << <<"u","s","d">>,
     <<"e","u","r">>,
     <<"g","b","p">>,
     <<"u","s","d","t">>,
     <<"u","s","d","c">>,
     <<"d","a","i">>,
     <<"b","u","s","d">>,
     <<"t","u","s","d">> >>

\* main: eth_indicators, sol_indicators
eth_indicators == << <<"e","t","h","e","r","e","u","m">>, <<"e","r","c","-","2","0">>, <<"e","r","c","2","0">>, <<"e","t","h">> >>
sol_indicators == << <<"s","o","l","a","n","a">>, <<"s","p","l">>, <<"s","o","l">> >>

\* the texts initial_token_filter returns; # stands for a formatted number
\* "Token identified as a stablecoin."
MsgStablecoin ==
  <<"T","o","k","e","n"," ","i","d","e","n","t","i","f","i","e","d"," ","a","s"," ","a"," ","s","t","a","b","l","e","c","o","i","n",".">>
\* "Market cap $# outside range $#-$#"
MsgMarketCap ==
  <<"M","a","r","k","e","t"," ","c","a","p"," ","$","#"," ","o","u","t","s","i","d","e"," ","r","a","n","g","e"," ","$","#","-","$","#">>
\* "Volume $# below minimum $#"
MsgVolume ==
  <<"V","o","l","u","m","e"," ","$","#"," ","b","e","l","o","w"," ","m","i","n","i","m","u","m"," ","$","#">>
\* "Age # days below minimum #"
MsgAge ==
  <<"A","g","e"," ","#"," ","d","a","y","s"," ","b","e","l","o","w"," ","m","i","n","i","m","u","m"," ","#">>
\* " change #% exceeds limit #%"
MsgChangeTail ==
  <<" ","c","h","a","n","g","e"," ","#","%"," ","e","x","c","e","e","d","s"," ","l","i","m","i","t"," ","#","%">>
\* "Passed initial filter"
MsgPassed ==
  <<"P","a","s","s","e","d"," ","i","n","i","t","i","a","l"," ","f","i","l","t","e","r">>
\* "Error in filtering: "
MsgErrorPrefix ==
  <<"E","r","r","o","r"," ","i","n"," ","f","i","l","t","e","r","i","n","g",":"," ">>
\* "'market_cap'"
ErrKeyMarketCap ==
  <<"'","m","a","r","k","e","t","_","c","a","p","'">>
\* "'volume_24h'"
ErrKeyVolume ==
  <<"'","v","o","l","u","m","e","_","2","4","h","'">>
\* "'date_added'"
ErrKeyDateAdded ==
  <<"'","d","a","t","e","_","a","d","d","e","d","'">>
\* "'<=' not supported between instances of 'int' and 'NoneType'"
ErrCmpIntNone ==
  <<"'","<","=","'"," ","n","o","t"," ","s","u","p","p","o","r","t","e","d"," ","b","e","t","w","e","e","n"," ","i","n","s","t","a","n","c","e","s"," ","o","f"," ","'","i","n","t","'"," ","a","n","d"," ","'","N","o","n","e","T","y","p","e","'">>
\* "'<' not supported between instances of 'NoneType' and 'int'"
ErrCmpNoneInt ==
  <<"'","<","'"," ","n","o","t"," ","s","u","p","p","o","r","t","e","d"," ","b","e","t","w","e","e","n"," ","i","n","s","t","a","n","c","e","s"," ","o","f"," ","'","N","o","n","e","T","y","p","e","'"," ","a","n","d"," ","'","i","n","t","'">>
\* "'NoneType' object has no attribute 'split'"
ErrNoneSplit ==
  <<"'","N","o","n","e","T","y","p","e","'"," ","o","b","j","e","c","t"," ","h","a","s"," ","n","o"," ","a","t","t","r","i","b","u","t","e"," ","'","s","p","l","i","t","'">>
\* "bad operand type for abs(): 'NoneType'"
ErrAbsNone ==
  <<"b","a","d"," ","o","p","e","r","a","n","d"," ","t","y","p","e"," ","f","o","r"," ","a","b","s","(",")",":"," ","'","N","o","n","e","T","y","p","e","'">>

----------------------------------------------------------------------------
(* TokenAnalyzer.__init__: the threshold tables                            *)

Risks == {"low", "medium", "high"}

TokenAnalyzerInit ==
  [ risk_ranges |->
      [low |-> <<1000, 10000>>, medium |-> <<250, 1000>>, high |-> <<10, 250>>],
    min_volume |-> [low |-> 10, medium |-> 5, high |-> 1],
    volume_mcap_limits |->
      [low    |-> <<Rat(1, 100), Rat(20, 100)>>,
       medium |-> <<Rat(2, 100), Rat(30, 100)>>,
       high   |-> <<Rat(5, 100), Rat(40, 100)>>],
    min_age |-> [low |-> 180, medium |-> 90, high |-> 30],
    max_volatility |->
      [low    |-> ("1h" :> 3 @@ "24h" :> 8  @@ "7d" :> 15),
       medium |-> ("1h" :> 5 @@ "24h" :> 15 @@ "7d" :> 30),
       high   |-> ("1h" :> 8 @@ "24h" :> 25 @@ "7d" :> 50)],
    min_quality_score |-> [low |-> 70, medium |-> 60, high |-> 45] ]

\* the analyzer before `analyzer = TokenAnalyzer(API_KEY)` has run
NoAnalyzer ==
  [ risk_ranges |-> <<>>, min_volume |-> <<>>, volume_mcap_limits |-> <<>>,
    min_age |-> <<>>, max_volatility |-> <<>>, min_quality_score |-> <<>> ]

----------------------------------------------------------------------------
(* TokenAnalyzer.get_all_tokens                                            *)

\* resp.kind: "request_error" (requests.get raises), "http_error"
\* (raise_for_status raises, whatever the body holds), "malformed" (json() or
\* ["data"] raises), "ok" (data is the list under "data")
\* raise_for_status() left out: the body is parsed whatever the status
GetAllTokensAnyStatus(resp) ==
  IF resp.kind \in {"ok", "http_error"} THEN resp.data ELSE <<>>

GetAllTokens(resp) == IF resp.kind = "ok" THEN resp.data ELSE <<>>

----------------------------------------------------------------------------
(* shared: the age of a token in days                                      *)

\* (datetime.now() - strptime(date_added.split('T')[0], '%Y-%m-%d')).days
AgeDays(token, now) == now - token.date_added.v

PercentChange(token, timeframe) ==
  CASE timeframe = "1h"  -> token.percent_change_1h
    [] timeframe = "24h" -> token.percent_change_24h
    [] timeframe = "7d"  -> token.percent_change_7d

TimeframeText(timeframe) ==
  CASE timeframe = "1h" -> s_1h [] timeframe = "24h" -> s_24h [] timeframe = "7d" -> s_7d

----------------------------------------------------------------------------
(* TokenAnalyzer.initial_token_filter                                      *)

Rejected(reason) == [passed |-> FALSE, reason |-> reason]
FilterError(text) == Rejected(MsgErrorPrefix \o text)

Timeframes == <<"1h", "24h", "7d">>

\* the loop run over ["1h"] only: the 24h and 7d changes are not checked
VolatilityCheck1hOnly(a, token, r, k) ==
  LET e == PercentChange(token, "1h")
  IN  IF e.st = "null" THEN FilterError(ErrAbsNone)
      ELSE LET change == IF e.st = "absent" THEN 0 ELSE Abs(e.v)
           IN  IF change > a.max_volatility[r]["1h"]
               THEN Rejected(TimeframeText("1h") \o MsgChangeTail)
               ELSE [passed |-> TRUE, reason |-> MsgPassed]

\* the loop over ["1h", "24h", "7d"], from position k on
RECURSIVE VolatilityCheck(_, _, _, _)
VolatilityCheck(a, token, r, k) ==
  IF k > Len(Timeframes) THEN [passed |-> TRUE, reason |-> MsgPassed]
  ELSE LET tf == Timeframes[k]
           e  == PercentChange(token, tf)
       IN  IF e.st = "null" THEN FilterError(ErrAbsNone)
           ELSE LET change == IF e.st = "absent" THEN 0 ELSE Abs(e.v)
                IN  IF change > a.max_volatility[r][tf]
                    THEN Rejected(TimeframeText(tf) \o MsgChangeTail)
                    ELSE VolatilityCheck(a, token, r, k + 1)

AgeCheck(a, token, r, now) ==
  IF token.date_added.st = "absent" THEN FilterError(ErrKeyDateAdded)
  ELSE IF token.date_added.st = "null" THEN FilterError(ErrNoneSplit)
  ELSE IF AgeDays(token, now) < a.min_age[r] THEN Rejected(MsgAge)
  ELSE VolatilityCheck(a, token, r, 1)

\* the volume comparison left out
VolumeCheckSkipped(a, token, r, now) ==
  IF token.volume_24h.st = "absent" THEN FilterError(ErrKeyVolume)
  ELSE IF token.volume_24h.st = "null" THEN FilterError(ErrCmpNoneInt)
  ELSE AgeCheck(a, token, r, now)

VolumeCheck(a, token, r, now) ==
  IF token.volume_24h.st = "absent" THEN FilterError(ErrKeyVolume)
  ELSE IF token.volume_24h.st = "null" THEN FilterError(ErrCmpNoneInt)
  ELSE IF token.volume_24h.v < a.min_volume[r] THEN Rejected(MsgVolume)
  ELSE AgeCheck(a, token, r, now)

\* the bounds of the range taken as outside it: < for <=
MarketCapCheckStrict(a, token, r, now) ==
  IF token.market_cap.st = "absent" THEN FilterError(ErrKeyMarketCap)
  ELSE IF token.market_cap.st = "null" THEN FilterError(ErrCmpIntNone)
  ELSE IF ~(a.risk_ranges[r][1] < token.market_cap.v
            /\ token.market_cap.v < a.risk_ranges[r][2])
       THEN Rejected(MsgMarketCap)
  ELSE VolumeCheck(a, token, r, now)

MarketCapCheck(a, token, r, now) ==
  IF token.market_cap.st = "absent" THEN FilterError(ErrKeyMarketCap)
  ELSE IF token.market_cap.st = "null" THEN FilterError(ErrCmpIntNone)
  ELSE IF ~(a.risk_ranges[r][1] <= token.market_cap.v
            /\ token.market_cap.v <= a.risk_ranges[r][2])
       THEN Rejected(MsgMarketCap)
  ELSE VolumeCheck(a, token, r, now)

initial_token_filter(a, token, r, now) ==
  IF InList(s_stablecoin, LowerAll(token.tags)) THEN Rejected(MsgStablecoin)
  ELSE MarketCapCheck(a, token, r, now)

----------------------------------------------------------------------------
(* TokenAnalyzer.calculate_quality_score                                   *)

\* min_pairs = {"low": 15, "medium": 8, "high": 3}
min_pairs == [low |-> 15, medium |-> 8, high |-> 3]

\* some statement of the try block raises
ScoreRaises(token) ==
  \/ ~IsVal(token.market_cap)
  \/ ~IsVal(token.volume_24h)
  \/ token.market_cap.v = 0
  \/ ~IsVal(token.percent_change_24h)
  \/ ~IsVal(token.percent_change_7d)
  \/ token.num_market_pairs.st = "null"
  \/ ~IsVal(token.date_added)
  \/ token.symbol.st = "absent"

MarketCapScore(a, token, r) ==
  RMin(RInt(20), RMul(Rat(token.market_cap.v, a.risk_ranges[r][2]), RInt(20)))

VolumeMcapRatio(token) == Rat(token.volume_24h.v, token.market_cap.v)

IdealRatio(a, r) ==
  RDiv(RAdd(a.volume_mcap_limits[r][1], a.volume_mcap_limits[r][2]), RInt(2))

\* max(0, volume_score) left out
VolumeScoreUnclamped(a, token, r) ==
  LET ideal_ratio == IdealRatio(a, r)
  IN  RMul(RInt(20),
           RSub(RInt(1),
                RDiv(RAbs(RSub(VolumeMcapRatio(token), ideal_ratio)), ideal_ratio)))

VolumeScore(a, token, r) ==
  LET ideal_ratio == IdealRatio(a, r)
      volume_score ==
        RMul(RInt(20),
             RSub(RInt(1),
                  RDiv(RAbs(RSub(VolumeMcapRatio(token), ideal_ratio)), ideal_ratio)))
  IN  RMax(RInt(0), volume_score)

\* stability_score *= 0.5 for each of 24h, 7d over the limit
StabilityScore(a, token, r) ==
  LET over24 == Abs(token.percent_change_24h.v) > a.max_volatility[r]["24h"]
      over7  == Abs(token.percent_change_7d.v) > a.max_volatility[r]["7d"]
  IN  IF over24 /\ over7 THEN RInt(5)
      ELSE IF over24 \/ over7 THEN RInt(10)
      ELSE RInt(20)

PairsScore(token, r) ==
  LET pairs == IF token.num_market_pairs.st = "absent" THEN 0
               ELSE token.num_market_pairs.v
  IN  RMin(RInt(20), RMul(Rat(pairs, min_pairs[r]), RInt(20)))

AgeScore(a, token, r, now) ==
  RMin(RInt(20), RMul(Rat(AgeDays(token, now), a.min_age[r]), RInt(20)))

calculate_quality_score(a, token, r, now) ==
  IF ScoreRaises(token) THEN RInt(0)
  ELSE RAdd(RAdd(RAdd(RAdd(MarketCapScore(a, token, r), VolumeScore(a, token, r)),
                      StabilityScore(a, token, r)),
                 PairsScore(token, r)),
            AgeScore(a, token, r, now))

\* the float the code computes is the fraction itself: every division is
\* exact or its result is cut off by min/max, and the volume component is 0
\* by a zero volume or by a ratio well over twice the ideal one. Otherwise
\* the float is the fraction up to rounding in the last places.
ScoreExact(a, token, r, now) ==
  \/ ScoreRaises(token)
  \/ /\ LET q == Rat(token.market_cap.v, a.risk_ranges[r][2])
        IN  RLeq(RInt(1), q) \/ IsDyadic(q)
     /\ VolumeScore(a, token, r) = RInt(0)
     /\ \/ token.volume_24h.v = 0
        \/ RLess(RMul(RInt(2), IdealRatio(a, r)), VolumeMcapRatio(token))
     /\ LET pairs == IF token.num_market_pairs.st = "absent" THEN 0
                     ELSE token.num_market_pairs.v
            q == Rat(pairs, min_pairs[r])
        IN  RLeq(RInt(1), q) \/ IsDyadic(q)
     /\ LET q == Rat(AgeDays(token, now), a.min_age[r])
        IN  RLeq(RInt(1), q) \/ IsDyadic(q)

\* the values the float score is computed from: the market cap, the volume,
\* the stability component, and the pairs and the age as far as min() lets
\* them count
ScoreKey(a, token, r, now) ==
  LET pairs == IF token.num_market_pairs.st = "absent" THEN 0
               ELSE token.num_market_pairs.v
      age == AgeDays(token, now)
  IN  <<r, token.market_cap.v, token.volume_24h.v, StabilityScore(a, token, r),
        IF pairs < min_pairs[r] THEN pairs ELSE min_pairs[r],
        IF age < a.min_age[r] THEN age ELSE a.min_age[r]>>

\* `quality_score < self.min_quality_score[risk]` on the float: the fraction
\* decides, and at equal fractions the rounding does
BelowMinimum(a, r, score, rounding) ==
  \/ RLess(score, RInt(a.min_quality_score[r]))
  \/ score = RInt(a.min_quality_score[r]) /\ rounding < 0

----------------------------------------------------------------------------
(* TokenAnalyzer.get_investment_rating; each text is kept by its kind      *)

utility_tags ==
  << <<"d","e","f","i">>, <<"n","f","t">>, <<"g","a","m","i","n","g">>,
     <<"l","a","y","e","r","-","2">>, <<"g","o","v","e","r","n","a","n","c","e">> >>

EmptyRating ==
  [strengths |-> <<>>, weaknesses |-> <<>>, opportunities |-> <<>>, risks |-> <<>>]

\* some statement of the try block raises
RatingRaises(token) ==
  \/ ~IsVal(token.volume_24h) \/ ~IsVal(token.market_cap)
  \/ token.market_cap.v = 0 \/ ~IsVal(token.date_added)
  \/ token.cmc_rank.st = "null" \/ ~IsVal(token.percent_change_7d)

get_investment_rating(a, token, r, now) ==
  IF RatingRaises(token) THEN EmptyRating
  ELSE
    LET volume_mcap == VolumeMcapRatio(token)
        age_days == AgeDays(token, now)
        rank == IF token.cmc_rank.st = "absent" THEN 1000 ELSE token.cmc_rank.v
        token_utilities ==
          SelectSeq(LowerAll(token.tags), LAMBDA t : InList(t, utility_tags))
    IN  [ strengths |->
            (IF rank <= 300 THEN <<"Strong market position">> ELSE <<>>)
            \o (IF age_days > 365 THEN <<"Well-established">> ELSE <<>>)
            \o (IF RLeq(a.volume_mcap_limits[r][1], volume_mcap)
                THEN <<"Healthy trading volume">> ELSE <<>>)
            \o (IF token_utilities # <<>> THEN <<"Clear utility">> ELSE <<>>),
          weaknesses |->
            (IF RLeq(a.volume_mcap_limits[r][1], volume_mcap)
             THEN <<>> ELSE <<"Lower than ideal trading volume">>)
            \o (IF token_utilities # <<>> THEN <<>>
                ELSE <<"Limited clear utility cases">>),
          opportunities |->
            (IF token.percent_change_7d.v > 0 THEN <<"Positive 7-day trend">> ELSE <<>>),
          risks |->
            (IF token.percent_change_7d.v > 0 THEN <<>> ELSE <<"Negative 7-day trend">>) ]

----------------------------------------------------------------------------
(* TokenAnalyzer.analyze_tokens: the body of the loop for one token        *)

NoCounts ==
  [market_cap |-> 0, volume |-> 0, age |-> 0, volatility |-> 0,
   quality_score |-> 0, other |-> 0]

\* the counter a failed filter is counted under, by the words of its reason
RejectCategory(reason) ==
  LET low == Lower(reason)
  IN  IF Contains(s_market_cap, low) THEN "market_cap"
      ELSE IF Contains(s_volume, low) THEN "volume"
      ELSE IF Contains(s_age, low) THEN "age"
      ELSE IF Contains(s_change, low) THEN "volatility"
      ELSE IF Contains(s_stablecoin, low) THEN "other"
      ELSE "other"

\* building analyzed_token raises (token["name"], ["symbol"], ["price"], ...)
BuildRaises(token) ==
  \/ token.name.st = "absent" \/ token.symbol.st = "absent"
  \/ token.price.st = "absent"

\* the float quality_score is held as the fraction quality_score and the
\* side score_rounding on which the float lies of it
AnalyzedToken(a, token, r, now, score, rounding) ==
  [ name |-> token.name.v,
    symbol |-> token.symbol.v,
    market_cap |-> token.market_cap.v,
    price |-> token.price,
    volume_24h |-> token.volume_24h.v,
    percent_change_24h |-> token.percent_change_24h.v,
    percent_change_7d |-> token.percent_change_7d.v,
    volume_to_mcap |-> VolumeMcapRatio(token),
    quality_score |-> score,
    score_rounding |-> rounding,
    cmc_rank |-> token.cmc_rank,
    date_added |-> token.date_added.v,
    tags |-> token.tags,
    analysis |-> get_investment_rating(a, token, r, now) ]

\* initial_token_filter returned its except branch's answer
IsFilterError(reason) ==
  Len(reason) >= Len(MsgErrorPrefix)
  /\ SubSeq(reason, 1, Len(MsgErrorPrefix)) = MsgErrorPrefix

\* the days datetime.now() gives in initial_token_filter, in
\* calculate_quality_score and in get_investment_rating
Clock(filter_day, score_day, rating_day) ==
  [filter |-> filter_day, score |-> score_day, rating |-> rating_day]

\* what one pass of the loop does to a token, the clock reading `clock` and
\* the float score rounded to the side `rounding` of its fraction:
\*   kind     "accept" (analyzed_token is appended) or "reject"
\*   counter  the key of rejected_counts a rejection increments
\*   error    an exception was raised and caught on the way
\*   scored   calculate_quality_score was called, and returned quality_score
AnalyzeOne(a, token, r, clock, rounding) ==
  LET f == initial_token_filter(a, token, r, clock.filter)
  IN  IF ~f.passed
      THEN [kind |-> "reject", counter |-> RejectCategory(f.reason),
            error |-> IsFilterError(f.reason), scored |-> FALSE,
            quality_score |-> RInt(0)]
      ELSE LET score == calculate_quality_score(a, token, r, clock.score)
           IN  IF BelowMinimum(a, r, score, rounding)
               THEN [kind |-> "reject", counter |-> "quality_score",
                     error |-> ScoreRaises(token), scored |-> TRUE,
                     quality_score |-> score]
               ELSE IF BuildRaises(token)
               THEN [kind |-> "reject", counter |-> "other", error |-> TRUE,
                     scored |-> TRUE, quality_score |-> score]
               ELSE [kind |-> "accept", counter |-> "none",
                     error |-> RatingRaises(token),
                     scored |-> TRUE, quality_score |-> score,
                     token |-> AnalyzedToken(a, token, r, clock.rating, score,
                                             rounding)]

\* where the loop goes after token number i of n: every branch of the body,
\* the except branch included, ends in `continue`
LoopAfter(o, i, n) == IF i + 1 > n THEN "sort" ELSE "analyze"

\* x["quality_score"] < y["quality_score"] on the floats
ScoreLess(x, y) ==
  \/ RLess(x.quality_score, y.quality_score)
  \/ x.quality_score = y.quality_score /\ x.score_rounding < y.score_rounding

\* sorted(analyzed_tokens, key=quality_score, reverse=True): stable, so equal
\* scores keep their order
\* reverse=True forgotten: the lowest score first
RECURSIVE InsertAscending(_, _)
InsertAscending(sorted, x) ==
  IF sorted = <<>> THEN <<x>>
  ELSE IF ScoreLess(x, Head(sorted))
       THEN <<x>> \o sorted
       ELSE <<Head(sorted)>> \o InsertAscending(Tail(sorted), x)

RECURSIVE InsertByScore(_, _)
InsertByScore(sorted, x) ==
  IF sorted = <<>> THEN <<x>>
  ELSE IF ScoreLess(Head(sorted), x)
       THEN <<x>> \o sorted
       ELSE <<Head(sorted)>> \o InsertByScore(Tail(sorted), x)

RECURSIVE SortedByScore(_)
SortedByScore(tokens) ==
  IF tokens = <<>> THEN <<>>
  ELSE InsertByScore(SortedByScore(SubSeq(tokens, 1, Len(tokens) - 1)),
                     tokens[Len(tokens)])

----------------------------------------------------------------------------
(* is_stablecoin                                                           *)

is_stablecoin(token) ==
  LET tags == LowerAll(token.tags)
  IN  IF \E k \in 1..Len(stablecoin_tags) : InList(stablecoin_tags[k], tags) THEN TRUE
      ELSE IF ~IsVal(token.name) \/ ~IsVal(token.symbol) THEN FALSE
      ELSE IF \E k \in 1..Len(stable_indicators) :
                 Contains(stable_indicators[k], Lower(token.name.v)) THEN TRUE
      ELSE IF \E k \in 1..Len(stable_indicators) :
                 Contains(stable_indicators[k], Lower(token.symbol.v)) THEN TRUE
      ELSE IF ~IsVal(token.price) THEN FALSE
      ELSE IF 95 <= token.price.v /\ token.price.v <= 105
           THEN IF token.percent_change_30d.st = "null" THEN FALSE
                ELSE LET volatility_30d ==
                           IF token.percent_change_30d.st = "absent" THEN 0
                           ELSE Abs(token.percent_change_30d.v)
                     IN  volatility_30d < 5
      ELSE FALSE

----------------------------------------------------------------------------
(* main: the chain filter                                                  *)

\* any platform at all counts as the chain's platform
MatchesAnyPlatform(token, native, platform_name, indicators) ==
  \/ Lower(token.symbol.v) = native
  \/ token.platform.st = "val"
  \/ \E k \in 1..Len(indicators) : InList(indicators[k], LowerAll(token.tags))

\* the three indicators of one chain: native symbol, platform, tags
MatchesChain(token, native, platform_name, indicators) ==
  \/ Lower(token.symbol.v) = native
  \/ /\ token.platform.st = "val"
     /\ \/ Lower(token.platform.name) = platform_name
        \/ Lower(token.platform.symbol) = native
  \/ \E k \in 1..Len(indicators) : InList(indicators[k], LowerAll(token.tags))

\* the body of `for token in all_tokens`: "stable" (counted and skipped),
\* "error" (the except branch), "keep" (appended) or "drop"
ChainFilterOne(token, ch) ==
  IF is_stablecoin(token) THEN "stable"
  ELSE IF Lower(ch) = s_ethereum
       THEN IF ~IsVal(token.symbol) THEN "error"
            ELSE IF MatchesChain(token, s_eth, s_ethereum, eth_indicators)
                 THEN "keep" ELSE "drop"
  ELSE IF Lower(ch) = s_solana
       THEN IF ~IsVal(token.symbol) THEN "error"
            ELSE IF MatchesChain(token, s_sol, s_solana, sol_indicators)
                 THEN "keep" ELSE "drop"
  ELSE "drop"

\* the whole loop: filtered_tokens and rejected_stablecoins after it
RECURSIVE ChainFilter(_, _)
ChainFilter(tokens, ch) ==
  IF tokens = <<>> THEN [filtered_tokens |-> <<>>, rejected_stablecoins |-> 0]
  ELSE LET rest == ChainFilter(SubSeq(tokens, 1, Len(tokens) - 1), ch)
           token == tokens[Len(tokens)]
           kind == ChainFilterOne(token, ch)
       IN  [ filtered_tokens |->
               IF kind = "keep" THEN Append(rest.filtered_tokens, token)
               ELSE rest.filtered_tokens,
             rejected_stablecoins |->
               IF kind = "stable" THEN rest.rejected_stablecoins + 1
               ELSE rest.rejected_stablecoins ]

----------------------------------------------------------------------------
(* main: the two menus                                                     *)

\* a menu with a third chain that the prompt (1-2) does not offer
chain_options_third ==
  (<<"1">> :> NameEthereum) @@ (<<"2">> :> NameSolana)
  @@ (<<"3">> :> <<"P","o","l","y","g","o","n">>)

chain_options == (<<"1">> :> NameEthereum) @@ (<<"2">> :> NameSolana)
\* the keys of chain_options in the order of the dict
chain_keys == << <<"1">>, <<"2">> >>
\* the local `chain` after `for key, chain in chain_options.items()` has
\* printed the menu: the last chain shown
MenuShown == chain_options[chain_keys[Len(chain_keys)]]
risk_options == (<<"1">> :> "low") @@ (<<"2">> :> "medium") @@ (<<"3">> :> "high")

\* lines typed at the two prompts
InputLines ==
  { <<"1">>, <<"2">>, <<"3">>, <<"4">>, <<" ", "2", " ">>, <<"\t", "1", "\n">>,
    <<"x">>, <<>> }

----------------------------------------------------------------------------
(* print_token_info, log_recommendations                                   *)

\* format_price(price) raises: `price < 0.00001` is a TypeError on None
FormatPriceRaises(price) == ~IsVal(price)

\* analyzed_tokens[:10]
Top10(tokens) == SubSeq(tokens, 1, IF Len(tokens) < 10 THEN Len(tokens) ELSE 10)

\* str.capitalize() on the name of a tier
Capitalize(r) ==
  CASE r = "low" -> "Low" [] r = "medium" -> "Medium" [] r = "high" -> "High"
    [] OTHER -> r

\* one f.write: the line it writes, the token (0: none) and the value shown
Write(line, k, v) == [line |-> line, token |-> k, v |-> v]

HeaderWrites(ch, r) ==
  << Write("Token Analysis Results", 0, <<>>), Write("Blockchain", 0, ch),
     Write("Risk Level", 0, Capitalize(r)), Write("=", 0, <<>>) >>

\* the heading of a category of the analysis and its items, if it has any
CategoryWrites(k, heading, items) ==
  IF items = <<>> THEN <<>>
  ELSE <<Write(heading, k, <<>>)>>
       \o [i \in 1..Len(items) |-> Write("item", k, items[i])]

\* what log_recommendations writes for the token at position k
TokenWrites(k, token) ==
  << Write("#", k, [name |-> token.name, symbol |-> token.symbol]),
     Write("Price", k, token.price),
     Write("Market Cap", k, token.market_cap),
     Write("24h Volume", k, token.volume_24h),
     Write("24h Change", k, token.percent_change_24h),
     Write("7d Change", k, token.percent_change_7d),
     Write("Quality Score", k, token.quality_score),
     Write("CMC Rank", k, token.cmc_rank),
     Write("Listed Date", k, token.date_added) >>
  \o (IF token.tags # <<>>
      THEN <<Write("Tags", k, SubSeq(token.tags, 1,
                     IF Len(token.tags) < 5 THEN Len(token.tags) ELSE 5))>>
      ELSE <<>>)
  \o CategoryWrites(k, "Strengths", token.analysis.strengths)
  \o CategoryWrites(k, "Weaknesses", token.analysis.weaknesses)
  \o CategoryWrites(k, "Opportunities", token.analysis.opportunities)
  \o CategoryWrites(k, "Risks", token.analysis.risks)
  \o <<Write("-", k, <<>>)>>

RECURSIVE AllTokenWrites(_, _)
AllTokenWrites(tokens, k) ==
  IF k > Len(tokens) THEN <<>>
  ELSE TokenWrites(k, tokens[k]) \o AllTokenWrites(tokens, k + 1)

FooterWrites == << Write("Note", 0, <<>>), Write("Generated on", 0, <<>>) >>

\* every write of a call that does not fail, in order
AllWrites(tokens, ch, r) ==
  HeaderWrites(ch, r) \o AllTokenWrites(tokens, 1) \o FooterWrites

NoFile == [written |-> FALSE, complete |-> FALSE, lines |-> <<>>]

\* fail_at = 0: open() raises and no file is made; fail_at = k: the k-th write
\* raises, the file keeps the writes before it and the except branch runs;
\* so it does at the first price line whose format_price raises (a token
\* whose price is None); fail_at beyond the last write and no such line: the
\* call succeeds
log_recommendations(tokens, ch, r, fail_at) ==
  LET writes == AllWrites(tokens, ch, r)
      Raises(i) == writes[i].line = "Price" /\ FormatPriceRaises(writes[i].v)
      first == IF \E i \in 1..Len(writes) : Raises(i)
               THEN CHOOSE i \in 1..Len(writes) :
                      Raises(i) /\ \A j \in 1..(i - 1) : ~Raises(j)
               ELSE Len(writes) + 1
      stop == IF fail_at < first THEN fail_at ELSE first
  IN  IF fail_at = 0 THEN NoFile
      ELSE IF stop > Len(writes)
      THEN [written |-> TRUE, complete |-> TRUE, lines |-> writes]
      ELSE [written |-> TRUE, complete |-> FALSE,
            lines |-> SubSeq(writes, 1, stop - 1)]

----------------------------------------------------------------------------
(* the listings the API may return                                         *)

NoPlatform == [st |-> "none", name |-> <<>>, symbol |-> <<>>]

\* Alpha (ALP) on the Ethereum platform: a sound low-tier token, score 90
Alpha ==
  [ name |-> Val(<<"A","l","p","h","a">>), symbol |-> Val(<<"A","L","P">>), tags |-> << <<"D","e","F","i">> >>,
    platform |-> [st |-> "val", name |-> <<"E","t","h","e","r","e","u","m">>, symbol |-> <<"E","T","H">>],
    market_cap |-> Val(5000), volume_24h |-> Val(525), price |-> Val(250),
    percent_change_1h |-> Val(1), percent_change_24h |-> Val(-2),
    percent_change_7d |-> Val(3), percent_change_30d |-> Val(10),
    num_market_pairs |-> Val(15), date_added |-> Val(600), cmc_rank |-> Val(100) ]
\* Beta: an ERC-20 tag only, volume half its market cap, low-tier score 76
Beta ==
  [ Alpha EXCEPT
      !.name = Val(<<"B","e","t","a">>),
      !.symbol = Val(<<"B","E","T">>),
      !.tags = << <<"E","R","C","-","2","0">> >>,
      !.platform = NoPlatform,
      !.market_cap = Val(8000),
      !.volume_24h = Val(4000),
      !.num_market_pairs = Val(30),
      !.cmc_rank = AbsentN ]
\* Gamma on Solana: every high-tier threshold met exactly
Gamma ==
  [ Alpha EXCEPT
      !.name = Val(<<"G","a","m","m","a">>),
      !.symbol = Val(<<"G","A","M">>),
      !.tags = <<>>,
      !.platform = [st |-> "val", name |-> <<"S","o","l","a","n","a">>, symbol |-> <<"S","O","L">>],
      !.market_cap = Val(250),
      !.volume_24h = Val(1),
      !.percent_change_1h = Val(-8),
      !.percent_change_24h = Val(25),
      !.percent_change_7d = Val(-50),
      !.num_market_pairs = Val(3),
      !.date_added = Val(970),
      !.cmc_rank = Val(900) ]
\* the native SOL coin, a medium-tier token
Sol ==
  [ Alpha EXCEPT
      !.name = Val(<<"S","o","l","a","n","a">>),
      !.symbol = Val(<<"S","O","L">>),
      !.tags = <<>>,
      !.platform = NoPlatform,
      !.market_cap = Val(500),
      !.volume_24h = Val(80),
      !.num_market_pairs = Val(4),
      !.date_added = Val(900) ]
\* a stablecoin by its name and symbol
TetherUSD ==
  [ Alpha EXCEPT
      !.name = Val(<<"T","e","t","h","e","r"," ","U","S","D">>),
      !.symbol = Val(<<"U","S","D","T">>),
      !.price = Val(100),
      !.percent_change_30d = Val(0) ]
\* a stablecoin by its pegged price only
Peg ==
  [ Gamma EXCEPT
      !.name = Val(<<"P","e","g">>),
      !.symbol = Val(<<"P","E","G">>),
      !.price = Val(100),
      !.percent_change_30d = AbsentN ]
\* no platform and no tag of either chain
Doge ==
  [ Alpha EXCEPT
      !.name = Val(<<"D","o","g","e">>),
      !.symbol = Val(<<"D","O","G","E">>),
      !.tags = << <<"m","e","m","e","s">> >>,
      !.platform = NoPlatform ]
\* like Alpha, listed without a name
NoName ==
  [ Alpha EXCEPT
      !.name = AbsentS ]
\* like Alpha, listed without a symbol
NoSymbol ==
  [ Alpha EXCEPT
      !.symbol = AbsentS ]
\* a new listing whose 24h change is null
NullChange ==
  [ Alpha EXCEPT
      !.name = Val(<<"D","e","l","t","a">>),
      !.symbol = Val(<<"D","E","L">>),
      !.percent_change_24h = NullN ]
\* listed without a 24h volume
NoVolume ==
  [ Alpha EXCEPT
      !.name = Val(<<"Z","e","t","a">>),
      !.symbol = Val(<<"Z","E","T">>),
      !.volume_24h = AbsentN ]
\* thinly traded: volume under every tier's minimum but the high one's
Thin ==
  [ Alpha EXCEPT
      !.name = Val(<<"T","h","i","n">>),
      !.symbol = Val(<<"T","H","N">>),
      !.volume_24h = Val(4) ]
\* passes the low-tier filter with a low score (46)
Weak ==
  [ Alpha EXCEPT
      !.name = Val(<<"W","e","a","k">>),
      !.symbol = Val(<<"W","E","A","K">>),
      !.market_cap = Val(1000),
      !.volume_24h = Val(1000),
      !.num_market_pairs = Val(3) ]
\* listed 29 days ago, 7d change missing
Young ==
  [ Gamma EXCEPT
      !.name = Val(<<"Y","o","u","n","g">>),
      !.symbol = Val(<<"Y","N","G">>),
      !.date_added = Val(971),
      !.percent_change_7d = AbsentN ]
\* sound but for a 1h change of 9 percent
Wild ==
  [ Alpha EXCEPT
      !.name = Val(<<"W","i","l","d">>),
      !.symbol = Val(<<"W","L","D">>),
      !.percent_change_1h = Val(9) ]

\* like Alpha, with "name": null
NullName ==
  [ Alpha EXCEPT
      !.name = NullS ]
\* like Alpha, with "symbol": null
NullSymbol ==
  [ Alpha EXCEPT
      !.symbol = NullS ]
\* like Alpha, with "cmc_rank": null
NullRank ==
  [ Alpha EXCEPT
      !.name = Val(<<"E","t","a">>),
      !.symbol = Val(<<"E","T","A">>),
      !.cmc_rank = NullN ]
\* two tokens whose low-tier scores are both 494/7 as fractions
TieA ==
  [ Alpha EXCEPT
      !.name = Val(<<"T","i","e","A">>),
      !.symbol = Val(<<"T","I","A">>),
      !.market_cap = Val(1000),
      !.volume_24h = Val(45) ]
TieB ==
  [ Alpha EXCEPT
      !.name = Val(<<"T","i","e","B">>),
      !.symbol = Val(<<"T","I","B">>),
      !.market_cap = Val(8000),
      !.volume_24h = Val(220),
      !.num_market_pairs = Val(7) ]

\* a third token with the score 494/7 of TieA and TieB on the low tier
TieX ==
  [ Alpha EXCEPT
      !.name = Val(<<"T","i","e","X">>),
      !.symbol = Val(<<"T","I","X">>),
      !.market_cap = Val(4000),
      !.volume_24h = Val(250),
      !.num_market_pairs = Val(8) ]
\* two tokens with the score 60 on the high tier: the float of LowA is not
\* its fraction, the float of ExactB is
LowA ==
  [ Alpha EXCEPT
      !.name = Val(<<"L","o","w","A">>),
      !.symbol = Val(<<"L","O","A">>),
      !.market_cap = Val(100),
      !.volume_24h = Val(39),
      !.num_market_pairs = Val(1) ]
ExactB ==
  [ Alpha EXCEPT
      !.name = Val(<<"E","x","a","c","t","B">>),
      !.symbol = Val(<<"E","X","B">>),
      !.market_cap = Val(250),
      !.volume_24h = Val(363),
      !.num_market_pairs = Val(0) ]

\* like Alpha, with "price": null
NullPrice ==
  [ Alpha EXCEPT
      !.name = Val(<<"N","i","l">>),
      !.symbol = Val(<<"N","I","L">>),
      !.price = NullN ]

NullTokens == {NullName, NullSymbol, NullRank, NullPrice}

Universe ==
  { Alpha, Beta, Gamma, Sol, TetherUSD, Peg, Doge, NoName, NoSymbol,
    NullChange, NoVolume, Thin, Weak, Young, Wild }

\* the longest listing drawn from the whole Universe
MaxLen == 2
\* the longest of the long listings, beyond the ten that are reported
MaxLong == 11
\* a long listing repeats a pattern of this many tokens
PatternLen == 2
\* the day the program runs
FirstDay == 1000
\* calls of analyze_tokens on one analyzer in SpecRepeat
MaxCalls == 2
\* midnights that pass while the program runs
MaxTicks == 2
\* the float of a score lies at most this many steps off its fraction
MaxRound == 1

LastDay == FirstDay + MaxTicks

ShortLists == UNION { [1..n -> Universe] : n \in 0..MaxLen }
LongLists ==
  { [k \in 1..n |-> p[((k - 1) % PatternLen) + 1]] :
      p \in [1..PatternLen -> {Alpha, Beta, Wild}], n \in 10..MaxLong }
\* lists of tokens whose scores are the same fraction and different floats
TieLists == { <<TieX, TieA, TieB>>, <<LowA, ExactB>> }
\* listings with null fields and with scores that tie as fractions
SpecialLists ==
  { <<Beta, NullName, Alpha>>, <<NullRank, Alpha>>, <<NullSymbol, Alpha>>,
    <<TieA, TieB>>, <<TieB, TieA>>, <<TieA, TieB, TieA>>,
    <<NullPrice>>, <<NullPrice, Alpha>>, <<Alpha, NullPrice>>,
    <<Beta, NullPrice, Alpha>>, <<Alpha, NullPrice, Beta>> }
  \cup { [k \in 1..n |-> IF k = n THEN NullPrice ELSE Alpha] : n \in 10..MaxLong }
  \cup TieLists
Listings == ShortLists \cup LongLists \cup SpecialLists

Responses ==
  { [kind |-> k, data |-> <<>>] : k \in {"request_error", "malformed"} }
  \cup { [kind |-> "http_error", data |-> d] : d \in {<<>>, <<Alpha>>} }
  \cup { [kind |-> "ok", data |-> l] : l \in Listings }

----------------------------------------------------------------------------
(* main as a state machine                                                 *)

Init ==
  /\ pc = "chain_input"
  /\ chain_choice = <<>> /\ chain = MenuShown
  /\ risk_choice = <<>>  /\ risk = ""
  /\ analyzer = NoAnalyzer
  /\ today = FirstDay /\ float_error = <<>>
  /\ fetch_result = "none"
  /\ all_tokens = <<>>
  /\ filtered_tokens = <<>> /\ rejected_stablecoins = 0
  /\ idx = 0 /\ quality_score = RInt(0)
  /\ analyzed_tokens = <<>> /\ rejected_counts = NoCounts
  /\ returns = <<>>
  /\ printed = <<>> /\ logged = NoFile
  /\ outcome = "running"

\* `if chain_choice in chain_options` / `if risk_choice in risk_options`
ValidChoice(choice, options) == choice \in DOMAIN options

\* the loop `chain_choice = input(...).strip()` until the choice is valid
ChainInput ==
  /\ pc = "chain_input"
  /\ \E line \in InputLines :
       /\ chain_choice' = Strip(line)
       /\ IF ValidChoice(Strip(line), chain_options)
          THEN chain' = chain_options[Strip(line)] /\ pc' = "risk_input"
          ELSE UNCHANGED <<chain, pc>>
  /\ UNCHANGED <<risk_choice, risk, analyzer, today, float_error,
                 fetch_result, all_tokens,
                 filtered_tokens, rejected_stablecoins, idx, quality_score,
                 analyzed_tokens, rejected_counts, returns, printed, logged,
                 outcome>>

\* the loop for the risk level, then analyzer = TokenAnalyzer(API_KEY)
RiskInput ==
  /\ pc = "risk_input"
  /\ \E line \in InputLines :
       /\ risk_choice' = Strip(line)
       /\ IF ValidChoice(Strip(line), risk_options)
          THEN /\ risk' = risk_options[Strip(line)]
               /\ analyzer' = TokenAnalyzerInit
               /\ pc' = "fetch"
          ELSE UNCHANGED <<risk, analyzer, pc>>
  /\ UNCHANGED <<chain_choice, chain, today, float_error, fetch_result,
                 all_tokens,
                 filtered_tokens, rejected_stablecoins, idx, quality_score,
                 analyzed_tokens, rejected_counts, returns, printed, logged,
                 outcome>>

\* `if not all_tokens:` after the fetch
FetchFailed(tokens) == tokens = <<>>

\* all_tokens = analyzer.get_all_tokens(); if not all_tokens: ... return
Fetch ==
  /\ pc = "fetch"
  /\ \E resp \in Responses :
       /\ fetch_result' = resp.kind
       /\ all_tokens' = GetAllTokens(resp)
       /\ IF FetchFailed(GetAllTokens(resp))
          THEN outcome' = "fetch_failed" /\ pc' = "done"
          ELSE outcome' = outcome /\ pc' = "chain_filter"
  /\ UNCHANGED <<chain_choice, chain, risk_choice, risk, analyzer, today,
                 float_error,
                 filtered_tokens, rejected_stablecoins, idx, quality_score,
                 analyzed_tokens, rejected_counts, returns, printed, logged>>

\* the accumulators kept on the analyzer from one call to the next
NewAnalysisKeeps(previous) == previous

\* the locals of analyze_tokens at its entry; `previous` is what an earlier
\* call left behind, which the function does not read
NewAnalysis(previous) == [analyzed_tokens |-> <<>>, rejected_counts |-> NoCounts]

\* where analyze_tokens starts on a list of tokens
LoopStart(tokens) == IF tokens = <<>> THEN "sort" ELSE "analyze"

\* `for token in all_tokens` with the chain filter; if not filtered_tokens:
\* return; else the call of analyze_tokens begins
FilterChain ==
  /\ pc = "chain_filter"
  /\ LET f == ChainFilter(all_tokens, chain)
         fresh == NewAnalysis([analyzed_tokens |-> analyzed_tokens,
                               rejected_counts |-> rejected_counts])
     IN  /\ filtered_tokens' = f.filtered_tokens
         /\ rejected_stablecoins' = f.rejected_stablecoins
         /\ IF f.filtered_tokens = <<>>
            THEN /\ outcome' = "no_chain_tokens" /\ pc' = "done"
                 /\ UNCHANGED <<idx, analyzed_tokens, rejected_counts>>
            ELSE /\ outcome' = outcome /\ pc' = LoopStart(f.filtered_tokens)
                 /\ idx' = 1
                 /\ analyzed_tokens' = fresh.analyzed_tokens
                 /\ rejected_counts' = fresh.rejected_counts
  /\ UNCHANGED <<chain_choice, chain, risk_choice, risk, analyzer, today,
                 float_error,
                 fetch_result, all_tokens, quality_score, returns, printed, logged>>

\* the readings of the clock in one pass of the loop on a token, none before
\* the last reading `from` and each no earlier than the one before it; a
\* reading that is not made is set to the one before it
Clocks(from, a, token, r) ==
  UNION { IF ~initial_token_filter(a, token, r, d1).passed
          THEN {Clock(d1, d1, d1)}
          ELSE UNION { IF ScoreRaises(token) \/ BuildRaises(token)
                       THEN {Clock(d1, d2, d2)}
                       ELSE {Clock(d1, d2, d3) : d3 \in d2..LastDay} :
                       d2 \in d1..LastDay } :
          d1 \in from..LastDay }

\* the last reading of the clock in a pass with the outcome o
LastRead(o, clock) ==
  IF o.kind = "accept" THEN clock.rating
  ELSE IF o.scored THEN clock.score
  ELSE clock.filter

\* the sides on which the float score of a token may lie of its fraction:
\* none when the float is the fraction; else the side found before for the
\* same values; else any
Roundings(a, token, r, clock, known) ==
  IF ~initial_token_filter(a, token, r, clock.filter).passed
     \/ ScoreExact(a, token, r, clock.score)
  THEN {0}
  ELSE IF ScoreKey(a, token, r, clock.score) \in DOMAIN known
  THEN {known[ScoreKey(a, token, r, clock.score)]}
  ELSE -MaxRound..MaxRound

\* the float found for the values of a scored token is the same ever after
Recorded(a, token, r, now, known, o, rounding) ==
  IF o.scored /\ ~ScoreExact(a, token, r, now)
  THEN (ScoreKey(a, token, r, now) :> rounding) @@ known
  ELSE known

\* `continue` forgotten after the quality score rejection: the token is
\* counted and falls through to be appended as well
AnalyzeStepNoContinue ==
  /\ pc = "analyze"
  /\ idx <= Len(filtered_tokens)
  /\ \E clock \in Clocks(today, analyzer, filtered_tokens[idx], risk) :
       /\ \E rounding \in Roundings(analyzer, filtered_tokens[idx], risk,
                                    clock, float_error) :
            LET t == filtered_tokens[idx]
                o == AnalyzeOne(analyzer, t, risk, clock, rounding)
            IN  /\ IF o.kind = "accept"
                   THEN /\ analyzed_tokens' = Append(analyzed_tokens, o.token)
                        /\ UNCHANGED rejected_counts
                   ELSE /\ rejected_counts' =
                             [rejected_counts EXCEPT ![o.counter] = @ + 1]
                        /\ IF o.counter = "quality_score" /\ ~BuildRaises(t)
                              /\ ~ScoreRaises(t)
                           THEN analyzed_tokens' =
                                  Append(analyzed_tokens,
                                         AnalyzedToken(analyzer, t, risk,
                                                       clock.rating,
                                                       o.quality_score, rounding))
                           ELSE UNCHANGED analyzed_tokens
                /\ quality_score' =
                     (IF o.scored THEN o.quality_score ELSE quality_score)
                /\ today' = LastRead(o, clock)
                /\ float_error' = Recorded(analyzer, t, risk, clock.score,
                                           float_error, o, rounding)
                /\ pc' = LoopAfter(o, idx, Len(filtered_tokens))
  /\ idx' = idx + 1
  /\ UNCHANGED <<chain_choice, chain, risk_choice, risk, analyzer,
                 fetch_result, all_tokens, filtered_tokens, rejected_stablecoins,
                 returns, printed, logged, outcome>>

\* one pass of `for token in tokens` in analyze_tokens
AnalyzeStep ==
  /\ pc = "analyze"
  /\ idx <= Len(filtered_tokens)
  /\ \E clock \in Clocks(today, analyzer, filtered_tokens[idx], risk) :
       /\ \E rounding \in Roundings(analyzer, filtered_tokens[idx], risk,
                                    clock, float_error) :
            LET t == filtered_tokens[idx]
                o == AnalyzeOne(analyzer, t, risk, clock, rounding)
            IN  /\ IF o.kind = "accept"
                   THEN /\ analyzed_tokens' = Append(analyzed_tokens, o.token)
                        /\ UNCHANGED rejected_counts
                   ELSE /\ rejected_counts' =
                             [rejected_counts EXCEPT ![o.counter] = @ + 1]
                        /\ UNCHANGED analyzed_tokens
                /\ quality_score' =
                     (IF o.scored THEN o.quality_score ELSE quality_score)
                /\ today' = LastRead(o, clock)
                /\ float_error' = Recorded(analyzer, t, risk, clock.score,
                                           float_error, o, rounding)
                /\ pc' = LoopAfter(o, idx, Len(filtered_tokens))
  /\ idx' = idx + 1
  /\ UNCHANGED <<chain_choice, chain, risk_choice, risk, analyzer,
                 fetch_result, all_tokens, filtered_tokens, rejected_stablecoins,
                 returns, printed, logged, outcome>>

\* the statistics are printed and the sorted list is returned
AnalyzeReturn ==
  /\ pc = "sort"
  /\ returns' = Append(returns, SortedByScore(analyzed_tokens))
  /\ pc' = "print"
  /\ UNCHANGED <<chain_choice, chain, risk_choice, risk, analyzer, today,
                 float_error,
                 fetch_result, all_tokens, filtered_tokens, rejected_stablecoins,
                 idx, quality_score, analyzed_tokens, rejected_counts, printed,
                 logged, outcome>>

\* `if analyzed_tokens:` print the first ten, else report that none matched;
\* print_token_info raises at the price line of a token, after its name and
\* market cap, when format_price does; the exception is caught nowhere in
\* main, which ends there, before log_recommendations
PrintTop ==
  /\ pc = "print"
  /\ LET top == Top10(returns[1])
         Raises(i) == FormatPriceRaises(top[i].price)
         k == IF \E i \in 1..Len(top) : Raises(i)
              THEN CHOOSE i \in 1..Len(top) :
                     Raises(i) /\ \A j \in 1..(i - 1) : ~Raises(j)
              ELSE 0
     IN  IF returns[1] = <<>>
         THEN printed' = printed /\ pc' = "done" /\ outcome' = "no_match"
         ELSE IF k = 0
         THEN printed' = top /\ pc' = "log" /\ outcome' = outcome
         ELSE /\ printed' = SubSeq(top, 1, k)
              /\ pc' = "done" /\ outcome' = "crashed"
  /\ UNCHANGED <<chain_choice, chain, risk_choice, risk, analyzer, today,
                 float_error,
                 fetch_result, all_tokens, filtered_tokens, rejected_stablecoins,
                 idx, quality_score, analyzed_tokens, rejected_counts, returns,
                 logged>>

\* the day of the last reading of the clock in log_recommendations: it is
\* read for the name of the file before the file is opened, and again in the
\* first and in the last write, each time no earlier than before
LogClock(from) == from..LastDay

\* log_recommendations(analyzed_tokens[:10], chain, risk)
Log ==
  /\ pc = "log"
  /\ \E fail_at \in 0..(Len(AllWrites(Top10(returns[1]), chain, risk)) + 1) :
       logged' = log_recommendations(Top10(returns[1]), chain, risk, fail_at)
  /\ today' \in LogClock(today)
  /\ outcome' = "reported"
  /\ pc' = "done"
  /\ UNCHANGED <<chain_choice, chain, risk_choice, risk, analyzer,
                 float_error,
                 fetch_result, all_tokens, filtered_tokens, rejected_stablecoins,
                 idx, quality_score, analyzed_tokens, rejected_counts, returns,
                 printed>>

Next ==
  \/ ChainInput \/ RiskInput \/ Fetch \/ FilterChain
  \/ AnalyzeStep \/ AnalyzeReturn \/ PrintTop \/ Log

Spec == Init /\ [][Next]_vars

----------------------------------------------------------------------------
(* analyze_tokens called again on the same analyzer, tokens, tier and day  *)

\* a token that is accepted, one whose age decides and one whose float score
\* is not its fraction
RepeatTokens == {Alpha, Young, TieA}

\* every short list of these, and lists of tokens that raise, that are
\* rejected by their score or their market cap, and that tie
RepeatLists ==
  UNION { [1..n -> RepeatTokens] : n \in 0..MaxLen }
  \cup { <<Alpha, Beta>>, <<Weak, Gamma>>, <<Beta, Weak, Alpha>>,
         <<NullChange, Alpha>>, <<Young, NullChange>>,
         <<TieA, TieB>>, <<TieB, TieA>> }
  \cup TieLists

InitRepeat ==
  /\ chain_choice = <<>> /\ chain = <<>> /\ risk_choice = <<>>
  /\ risk \in Risks
  /\ analyzer = TokenAnalyzerInit
  /\ today = FirstDay /\ float_error = <<>>
  /\ fetch_result = "none"
  /\ all_tokens = <<>>
  /\ filtered_tokens \in RepeatLists
  /\ rejected_stablecoins = 0
  /\ pc = LoopStart(filtered_tokens)
  /\ idx = 1 /\ quality_score = RInt(0)
  /\ analyzed_tokens = <<>> /\ rejected_counts = NoCounts
  /\ returns = <<>>
  /\ printed = <<>> /\ logged = NoFile
  /\ outcome = "running"

CallAgain ==
  /\ pc = "print"
  /\ Len(returns) < MaxCalls
  /\ LET fresh == NewAnalysis([analyzed_tokens |-> analyzed_tokens,
                               rejected_counts |-> rejected_counts])
     IN  /\ analyzed_tokens' = fresh.analyzed_tokens
         /\ rejected_counts' = fresh.rejected_counts
  /\ idx' = 1
  /\ pc' = LoopStart(filtered_tokens)
  /\ UNCHANGED <<chain_choice, chain, risk_choice, risk, analyzer, today,
                 float_error,
                 fetch_result, all_tokens, filtered_tokens, rejected_stablecoins,
                 quality_score, returns, printed, logged, outcome>>

NextRepeat == AnalyzeStep \/ AnalyzeReturn \/ CallAgain

SpecRepeat == InitRepeat /\ [][NextRepeat]_vars

----------------------------------------------------------------------------
(* calculate_quality_score applied to one token of one tier                *)

\* Alpha with its scored fields set to small, ordinary and very large values
ScoreTokens ==
  Universe \cup NullTokens \cup
  { [Alpha EXCEPT !.market_cap = mc, !.volume_24h = v, !.num_market_pairs = p,
                  !.date_added = d, !.percent_change_24h = c24,
                  !.percent_change_7d = c7] :
      mc \in {Val(0), Val(1), Val(1000), Val(10000), Val(30000)},
      v \in {Val(0), Val(525), Val(1050), Val(60000)},
      p \in {AbsentN, Val(0), Val(15), Val(500)},
      d \in {Val(FirstDay), Val(970), Val(600)},
      c24 \in {Val(-2), Val(100)},
      c7 \in {Val(3), Val(-100)} }

InitScore ==
  /\ chain_choice = <<>> /\ chain = <<>> /\ risk_choice = <<>>
  /\ risk \in Risks
  /\ analyzer = TokenAnalyzerInit
  /\ today = FirstDay /\ float_error = <<>>
  /\ fetch_result = "none"
  /\ all_tokens = <<>>
  /\ filtered_tokens \in { <<t>> : t \in ScoreTokens }
  /\ rejected_stablecoins = 0
  /\ pc = "score"
  /\ idx = 1 /\ quality_score = RInt(0)
  /\ analyzed_tokens = <<>> /\ rejected_counts = NoCounts
  /\ returns = <<>>
  /\ printed = <<>> /\ logged = NoFile
  /\ outcome = "running"

ScoreCall ==
  /\ pc = "score"
  /\ quality_score' = calculate_quality_score(analyzer, filtered_tokens[1], risk, today)
  /\ pc' = "scored"
  /\ UNCHANGED <<chain_choice, chain, risk_choice, risk, analyzer, today,
                 float_error,
                 fetch_result, all_tokens, filtered_tokens, rejected_stablecoins,
                 idx, analyzed_tokens, rejected_counts, returns, printed, logged,
                 outcome>>

NextScore == ScoreCall

SpecScore == InitScore /\ [][NextScore]_vars

----------------------------------------------------------------------------
(* analyze_tokens on one token whose fields lie at and next to the         *)
(* thresholds of the tiers, and on the lists of tokens whose scores tie    *)

\* the 1h, 24h and 7d changes: at the limits of a tier, over all of them,
\* over the later ones only, over the last one only; and a change that is
\* null or missing
ChangeEdges ==
  UNION { LET l == TokenAnalyzerInit.max_volatility[r]
          IN  { <<Val(l["1h"]), Val(-l["24h"]), Val(l["7d"])>>,
                <<Val(l["1h"] + 1), Val(l["24h"] + 1), Val(l["7d"] + 1)>>,
                <<Val(-l["1h"]), Val(l["24h"] + 1), Val(-(l["7d"] + 1))>>,
                <<Val(l["1h"]), Val(l["24h"]), Val(-(l["7d"] + 1))>> } :
          r \in Risks }
  \cup { <<Val(1), NullN, Val(3)>>, <<Val(1), Val(-2), AbsentN>>,
         <<AbsentN, Val(2), Val(16)>> }

\* a medium-tier token at the lower market cap bound, the minimum age and the
\* volatility limits, whose score is 5 + 0 + 20 + 15 + 20 = 60
EdgeMid ==
  [ Alpha EXCEPT
      !.name = Val(<<"M","i","d">>),
      !.symbol = Val(<<"M","I","D">>),
      !.market_cap = Val(250),
      !.volume_24h = Val(5000),
      !.percent_change_1h = Val(5),
      !.percent_change_24h = Val(-15),
      !.percent_change_7d = Val(30),
      !.num_market_pairs = Val(6),
      !.date_added = Val(910) ]

\* like Alpha, carrying the stablecoin tag in capitals, out of every range
TaggedStable ==
  [ Alpha EXCEPT
      !.tags = << <<"D","e","F","i">>, <<"S","t","a","b","l","e","c","o","i","n">> >>,
      !.market_cap = Val(5),
      !.volume_24h = AbsentN ]

EdgeTokens ==
  Universe \cup NullTokens \cup {EdgeMid, TaggedStable} \cup
  { [Alpha EXCEPT !.market_cap = mc, !.volume_24h = v, !.date_added = d,
                  !.percent_change_1h = c[1], !.percent_change_24h = c[2],
                  !.percent_change_7d = c[3]] :
      mc \in {Val(9), Val(10), Val(249), Val(250), Val(251), Val(999),
              Val(1000), Val(1001), Val(5000), Val(10000), Val(10001),
              AbsentN, NullN},
      v \in {Val(0), Val(1), Val(4), Val(5), Val(9), Val(10), Val(5000),
             AbsentN, NullN},
      d \in {Val(971), Val(970), Val(911), Val(910), Val(821), Val(820),
             AbsentN},
      c \in ChangeEdges }

InitEdge ==
  /\ chain_choice = <<>> /\ chain = <<>> /\ risk_choice = <<>>
  /\ risk \in Risks
  /\ analyzer = TokenAnalyzerInit
  /\ today = FirstDay /\ float_error = <<>>
  /\ fetch_result = "none"
  /\ all_tokens = <<>>
  /\ filtered_tokens \in { <<t>> : t \in EdgeTokens } \cup TieLists
  /\ rejected_stablecoins = 0
  /\ pc = LoopStart(filtered_tokens)
  /\ idx = 1 /\ quality_score = RInt(0)
  /\ analyzed_tokens = <<>> /\ rejected_counts = NoCounts
  /\ returns = <<>>
  /\ printed = <<>> /\ logged = NoFile
  /\ outcome = "running"

NextEdge == AnalyzeStep \/ AnalyzeReturn

SpecEdge == InitEdge /\ [][NextEdge]_vars

----------------------------------------------------------------------------
(* C1: the order of the stages of main                                     *)

StageOrder(p) ==
  CASE p = "chain_input" -> 1 [] p = "risk_input" -> 2 [] p = "fetch" -> 3
    [] p = "chain_filter" -> 4 [] p = "analyze" -> 5 [] p = "sort" -> 6
    [] p = "print" -> 7 [] p = "log" -> 8 [] p = "done" -> 9

\* C1: main goes through chain selection, risk selection, fetch, chain filter,
\* per-token analysis, sort, print and log in this order: every change of
\* stage is to the next stage (or to the end, from the three places where
\* main returns early), so no stage runs twice; a stage is left only when its
\* work is complete and no later stage has left a trace before it starts;
\* and from the fetch on, the chain choice is 1 or 2 and the risk choice is
\* 1, 2 or 3.
C1_StagesInOrder ==
  /\ [][pc' # pc =>
          \/ StageOrder(pc') = StageOrder(pc) + 1
          \/ pc' = "done" /\ pc \in {"fetch", "chain_filter", "print"}]_vars
  /\ [](StageOrder(pc) >= 3 =>
          /\ chain_choice \in {<<"1">>, <<"2">>}
          /\ risk_choice \in {<<"1">>, <<"2">>, <<"3">>}
          /\ chain \in {NameEthereum, NameSolana}
          /\ risk \in Risks)
  /\ [](StageOrder(pc) <= 3 => fetch_result = "none" /\ all_tokens = <<>>)
  /\ [](StageOrder(pc) <= 4 => filtered_tokens = <<>> /\ analyzed_tokens = <<>>)
  /\ [](pc = "analyze" => idx <= Len(filtered_tokens))
  /\ [](pc = "sort" => idx = Len(filtered_tokens) + 1)
  /\ [](StageOrder(pc) <= 6 => returns = <<>>)
  /\ [](StageOrder(pc) >= 7 /\ filtered_tokens # <<>> => Len(returns) = 1)
  /\ [](StageOrder(pc) <= 7 => printed = <<>>)
  /\ [](StageOrder(pc) <= 8 => ~logged.written)

\* a run that went through every stage and wrote its log file
C1_Witness == pc = "done" /\ outcome = "reported" /\ logged.written

----------------------------------------------------------------------------
(* C2: the thresholds of the tier hold of every returned token             *)

\* rec is the analyzed_token built from the listing t
IsAnalysisOf(rec, t) ==
  /\ t.name.st # "absent" /\ t.name.v = rec.name
  /\ t.symbol.st # "absent" /\ t.symbol.v = rec.symbol
  /\ IsVal(t.market_cap) /\ t.market_cap.v = rec.market_cap
  /\ IsVal(t.volume_24h) /\ t.volume_24h.v = rec.volume_24h
  /\ IsVal(t.percent_change_24h) /\ t.percent_change_24h.v = rec.percent_change_24h
  /\ IsVal(t.percent_change_7d) /\ t.percent_change_7d.v = rec.percent_change_7d
  /\ IsVal(t.date_added) /\ t.date_added.v = rec.date_added

MeetsTier(rec, t, r) ==
  /\ TokenAnalyzerInit.risk_ranges[r][1] <= rec.market_cap
  /\ rec.market_cap <= TokenAnalyzerInit.risk_ranges[r][2]
  /\ rec.volume_24h >= TokenAnalyzerInit.min_volume[r]
  /\ today - rec.date_added >= TokenAnalyzerInit.min_age[r]
  /\ \A tf \in {"1h", "24h", "7d"} :
       IsVal(PercentChange(t, tf)) =>
         Abs(PercentChange(t, tf).v) <= TokenAnalyzerInit.max_volatility[r][tf]
  /\ Abs(rec.percent_change_24h) <= TokenAnalyzerInit.max_volatility[r]["24h"]
  /\ Abs(rec.percent_change_7d) <= TokenAnalyzerInit.max_volatility[r]["7d"]
  /\ ~BelowMinimum(TokenAnalyzerInit, r, rec.quality_score, rec.score_rounding)

\* C2: every token of a list analyze_tokens returned comes from a token of
\* its input whose market cap, volume, age, 1h/24h/7d changes and quality
\* score meet the thresholds of the chosen tier.
C2_ReturnedMeetTier ==
  \A c \in 1..Len(returns) : \A k \in 1..Len(returns[c]) :
    \E j \in 1..Len(filtered_tokens) :
      /\ IsAnalysisOf(returns[c][k], filtered_tokens[j])
      /\ MeetsTier(returns[c][k], filtered_tokens[j], risk)

\* a call that accepted one token and rejected another
C2_Witness ==
  /\ pc = "print" /\ Len(returns) = 1
  /\ Len(returns[1]) >= 1
  /\ Len(returns[1]) < Len(filtered_tokens)

----------------------------------------------------------------------------
(* C3: what the chain filter passes on                                     *)

\* the indicators of the claim, for the chain chosen
HasChainIndicator(t, ch) ==
  LET native == IF ch = NameEthereum THEN s_eth ELSE s_sol
      pname == IF ch = NameEthereum THEN s_ethereum ELSE s_solana
      tagset == IF ch = NameEthereum
                THEN {s_ethereum, <<"e","r","c","-","2","0">>,
                      <<"e","r","c","2","0">>, s_eth}
                ELSE {s_solana, <<"s","p","l">>, s_sol}
  IN  /\ IsVal(t.symbol)
      /\ \/ Lower(t.symbol.v) = native
         \/ t.platform.st = "val" /\ Lower(t.platform.name) = pname
         \/ t.platform.st = "val" /\ Lower(t.platform.symbol) = native
         \/ \E k \in 1..Len(t.tags) : Lower(t.tags[k]) \in tagset

\* C3: when analyze_tokens is called, every token handed to it
\* is a fetched token that is_stablecoin rejected as a stablecoin (returned
\* false for) and that shows an indicator of the chosen chain: the native
\* symbol, the platform name or symbol, or a tag of the chain's list.
C3_ChainFiltered ==
  (pc = "analyze" /\ idx = 1) =>
    \A k \in 1..Len(filtered_tokens) :
      /\ \E j \in 1..Len(all_tokens) : all_tokens[j] = filtered_tokens[k]
      /\ ~is_stablecoin(filtered_tokens[k])
      /\ HasChainIndicator(filtered_tokens[k], chain)

\* a run whose filter kept a token and dropped one that is no stablecoin
C3_Witness ==
  /\ pc = "analyze" /\ filtered_tokens # <<>>
  /\ \E j \in 1..Len(all_tokens) :
       /\ ~is_stablecoin(all_tokens[j])
       /\ IsVal(all_tokens[j].symbol)
       /\ \A k \in 1..Len(filtered_tokens) : filtered_tokens[k] # all_tokens[j]

----------------------------------------------------------------------------
(* C4: the returned list is the accepted tokens, ranked                    *)

CountIn(x, seq) == Cardinality({k \in 1..Len(seq) : seq[k] = x})

IsPermutationOf(a, b) ==
  /\ Len(a) = Len(b)
  /\ \A k \in 1..Len(b) : CountIn(b[k], a) = CountIn(b[k], b)

\* C4: the list analyze_tokens returns holds exactly the accepted tokens,
\* each as often as it was accepted, and its quality scores never increase
\* from one position to a later one.
C4_Ranked ==
  (StageOrder(pc) >= 7 /\ Len(returns) = 1) =>
    /\ IsPermutationOf(returns[1], analyzed_tokens)
    /\ \A i \in 1..Len(returns[1]) : \A j \in 1..Len(returns[1]) :
         i < j => ~ScoreLess(returns[1][i], returns[1][j])

\* a call whose sort changed the order of at least two accepted tokens
C4_Witness ==
  /\ pc = "print" /\ Len(returns) = 1
  /\ Len(returns[1]) >= 2
  /\ returns[1] # analyzed_tokens

----------------------------------------------------------------------------
(* C5: the shortlist that is printed and logged                            *)

\* the lines of a file that open the entry of a token
LoggedTokens(file) == SelectSeq(file.lines, LAMBDA w : w.line = "#")

\* C5 as claimed: at most ten tokens are printed; once the print loop is
\* left after a ranking of n >= 1 tokens, every one of the first min(10, n)
\* tokens of the ranked list is printed, the report goes on to
\* log_recommendations and main ends with the shortlist reported; none of the
\* other tokens scores strictly higher than a printed one; the tokens of the
\* log file are the printed tokens from the first on in the printed order,
\* all of them with their market caps and scores when neither open() nor a
\* write of log_recommendations failed.
C5_Shortlist ==
  /\ Len(printed) <= 10
  /\ (pc \in {"log", "done"} /\ Len(returns) = 1 /\ returns[1] # <<>>) =>
       LET n == Len(returns[1])
           m == IF n < 10 THEN n ELSE 10
       IN  /\ outcome # "crashed"
           /\ pc = "done" => outcome = "reported"
           /\ Len(printed) = m
           /\ \A k \in 1..m : printed[k] = returns[1][k]
           /\ \A i \in (m + 1)..n : \A k \in 1..m :
                ~ScoreLess(printed[k], returns[1][i])
  /\ logged.written =>
       LET entries == LoggedTokens(logged)
       IN  /\ Len(entries) <= Len(printed)
           /\ \A k \in 1..Len(entries) :
                /\ entries[k].token = k
                /\ entries[k].v.name = printed[k].name
                /\ entries[k].v.symbol = printed[k].symbol
  /\ logged.complete =>
       /\ Len(LoggedTokens(logged)) = Len(printed)
       /\ \A k \in 1..Len(printed) :
            /\ \E i \in 1..Len(logged.lines) :
                 /\ logged.lines[i].line = "Market Cap"
                 /\ logged.lines[i].token = k
                 /\ logged.lines[i].v = printed[k].market_cap
            /\ \E i \in 1..Len(logged.lines) :
                 /\ logged.lines[i].line = "Quality Score"
                 /\ logged.lines[i].token = k
                 /\ logged.lines[i].v = printed[k].quality_score

----------------------------------------------------------------------------
(* C6: a failed fetch                                                      *)

\* C6: when the request fails, the status is bad or the response is
\* malformed, get_all_tokens returns the empty list, main reports the failed
\* fetch and has ended: no chain filter, no analysis, nothing printed from a
\* ranked list and no recommendations file.
C6_FetchFailure ==
  fetch_result \in {"request_error", "http_error", "malformed"} =>
    /\ all_tokens = <<>>
    /\ pc = "done" /\ outcome = "fetch_failed"
    /\ filtered_tokens = <<>> /\ rejected_stablecoins = 0
    /\ idx = 0 /\ analyzed_tokens = <<>> /\ rejected_counts = NoCounts
    /\ returns = <<>>
    /\ printed = <<>>
    /\ ~logged.written

\* a run ended by a bad HTTP status
C6_Witness == fetch_result = "http_error" /\ pc = "done" /\ outcome = "fetch_failed"

----------------------------------------------------------------------------
(* C7: an error on one token does not stop the loops                       *)

\* every reading of the clock so far gave the day the run began
SameDay == today = FirstDay

\* the side of its fraction on which the float score of a token was found
FloatSide(t, r) ==
  IF ScoreRaises(t)
     \/ ScoreKey(TokenAnalyzerInit, t, r, FirstDay) \notin DOMAIN float_error
  THEN 0
  ELSE float_error[ScoreKey(TokenAnalyzerInit, t, r, FirstDay)]

\* one pass of the loop on t, on the day the run began
AnalyzedAtStart(t) ==
  AnalyzeOne(analyzer, t, risk, Clock(FirstDay, FirstDay, FirstDay),
             FloatSide(t, risk))

\* an exception is raised (and caught) while analyze_tokens processes t
RaisesInAnalysis(t) == AnalyzedAtStart(t).error

\* the tokens of a list that analyze_tokens accepts, analyzed, in their order
RECURSIVE AcceptedOf(_)
AcceptedOf(tokens) ==
  IF tokens = <<>> THEN <<>>
  ELSE LET o == AnalyzedAtStart(Head(tokens))
       IN  (IF o.kind = "accept" THEN <<o.token>> ELSE <<>>)
           \o AcceptedOf(Tail(tokens))

SumCounts(counts) ==
  counts.market_cap + counts.volume + counts.age + counts.volatility
  + counts.quality_score + counts.other

\* C7 as claimed: within a day, in analyze_tokens the tokens accepted so far
\* are those accepted from the tokens processed so far with the failing ones
\* taken away, so a failing token (one for which an exception is raised and
\* caught, in the filter, the score, the rating or the loop body) is left out
\* and the tokens after it fare as if it were absent; every token not
\* accepted, a failing one included, is counted in rejected_counts; the
\* returned list is the ranking of the list without its failing tokens. In
\* main the chain filter keeps what it would keep of the fetched list without
\* the tokens that reach its except branch. The returned list is examined
\* when analyze_tokens returns and the chain filter when its loop ends;
\* neither list changes afterwards.
C7_ErrorsSkipped ==
  /\ (pc \in {"analyze", "sort"} /\ SameDay) =>
       LET done == SubSeq(filtered_tokens, 1, idx - 1)
       IN  /\ analyzed_tokens =
                AcceptedOf(SelectSeq(done, LAMBDA t : ~RaisesInAnalysis(t)))
           /\ SumCounts(rejected_counts) + Len(analyzed_tokens) = Len(done)
  /\ (pc = "print" /\ Len(returns) = 1 /\ SameDay) =>
       /\ returns[1] =
            SortedByScore(AcceptedOf(
              SelectSeq(filtered_tokens, LAMBDA t : ~RaisesInAnalysis(t))))
       /\ SumCounts(rejected_counts) + Len(returns[1]) = Len(filtered_tokens)
       /\ \A j \in 1..Len(filtered_tokens) :
            RaisesInAnalysis(filtered_tokens[j]) =>
              \A k \in 1..Len(returns[1]) :
                ~IsAnalysisOf(returns[1][k], filtered_tokens[j])
  /\ ((pc = "analyze" /\ idx = 1) \/ outcome = "no_chain_tokens") =>
       /\ filtered_tokens =
            ChainFilter(SelectSeq(all_tokens,
                          LAMBDA t : ChainFilterOne(t, chain) # "error"),
                        chain).filtered_tokens
       /\ \A k \in 1..Len(filtered_tokens) :
            ChainFilterOne(filtered_tokens[k], chain) # "error"

----------------------------------------------------------------------------
(* C8: the range of the quality score                                      *)

InRange(lo, x, hi) == RLeq(RInt(lo), x) /\ RLeq(x, RInt(hi))

\* C8: calculate_quality_score returns a value from 0 to 100 for every
\* token and tier; when no statement of it raises, the value is the sum of
\* the market cap, volume, stability, listings and age components and each
\* of the five is from 0 to 20.
C8_ScoreBounds ==
  pc = "scored" =>
    /\ InRange(0, quality_score, 100)
    /\ ~ScoreRaises(filtered_tokens[1]) =>
         LET t == filtered_tokens[1]
             mc == MarketCapScore(analyzer, t, risk)
             vo == VolumeScore(analyzer, t, risk)
             st == StabilityScore(analyzer, t, risk)
             pa == PairsScore(t, risk)
             ag == AgeScore(analyzer, t, risk, today)
         IN  /\ InRange(0, mc, 20) /\ InRange(0, vo, 20) /\ InRange(0, st, 20)
             /\ InRange(0, pa, 20) /\ InRange(0, ag, 20)
             /\ quality_score = RAdd(RAdd(RAdd(RAdd(mc, vo), st), pa), ag)

\* a token scored with its market cap over the tier's maximum and its volume
\* more than twice the ideal share of it: both clamps are at work
C8_Witness ==
  /\ pc = "scored"
  /\ ~ScoreRaises(filtered_tokens[1])
  /\ filtered_tokens[1].market_cap.v > analyzer.risk_ranges[risk][2]
  /\ RLess(RMul(RInt(2), IdealRatio(analyzer, risk)),
           VolumeMcapRatio(filtered_tokens[1]))
  /\ RLess(RInt(0), quality_score)

----------------------------------------------------------------------------
(* C9: nothing is kept from one analysis to the next                       *)

\* C9: no step changes the threshold tables of the constructed analyzer, the
\* input tokens or the tier, and as long as the date is the same every call
\* of analyze_tokens on them returns the list the first call returned.
C9_NoPersistentState ==
  /\ [][/\ analyzer' = analyzer /\ filtered_tokens' = filtered_tokens
        /\ risk' = risk]_vars
  /\ [](analyzer = TokenAnalyzerInit)
  /\ [](today = FirstDay => \A c \in 1..Len(returns) : returns[c] = returns[1])

\* a second call has returned, after accepting and rejecting tokens
C9_Witness ==
  /\ Len(returns) = 2 /\ today = FirstDay
  /\ Len(returns[2]) >= 1
  /\ SumCounts(rejected_counts) >= 1

----------------------------------------------------------------------------
(* C10: the volume to market cap ratio limits                              *)

RatioWithinLimits(rec, r) ==
  /\ RLeq(TokenAnalyzerInit.volume_mcap_limits[r][1],
          Rat(rec.volume_24h, rec.market_cap))
  /\ RLeq(Rat(rec.volume_24h, rec.market_cap),
          TokenAnalyzerInit.volume_mcap_limits[r][2])

\* C10 as claimed: every returned token has volume_24h / market_cap within
\* the volume_mcap_limits of the tier.
C10_RatioWithinLimits ==
  \A c \in 1..Len(returns) : \A k \in 1..Len(returns[c]) :
    RatioWithinLimits(returns[c][k], risk)

----------------------------------------------------------------------------
(* C11: the comparisons are inclusive and the filter is complete           *)

\* every field analyze_tokens reads is present and holds a value
WellFormed(t) ==
  /\ IsVal(t.name) /\ IsVal(t.symbol) /\ IsVal(t.price)
  /\ IsVal(t.market_cap) /\ IsVal(t.volume_24h) /\ IsVal(t.date_added)
  /\ IsVal(t.percent_change_1h) /\ IsVal(t.percent_change_24h)
  /\ IsVal(t.percent_change_7d) /\ IsVal(t.num_market_pairs)

NoStablecoinTag(t) ==
  \A k \in 1..Len(t.tags) : Lower(t.tags[k]) # s_stablecoin

\* the token meets every threshold of tier r on day now, bounds included,
\* its score being the float found for it
Qualifies(t, r, now) ==
  /\ WellFormed(t)
  /\ NoStablecoinTag(t)
  /\ TokenAnalyzerInit.risk_ranges[r][1] <= t.market_cap.v
  /\ t.market_cap.v <= TokenAnalyzerInit.risk_ranges[r][2]
  /\ t.volume_24h.v >= TokenAnalyzerInit.min_volume[r]
  /\ now - t.date_added.v >= TokenAnalyzerInit.min_age[r]
  /\ \A tf \in {"1h", "24h", "7d"} :
       Abs(PercentChange(t, tf).v) <= TokenAnalyzerInit.max_volatility[r][tf]
  /\ ~BelowMinimum(TokenAnalyzerInit, r,
                   calculate_quality_score(TokenAnalyzerInit, t, r, now),
                   FloatSide(t, r))

\* list holds the analyzed_token of t
Holds(list, t) == \E k \in 1..Len(list) : IsAnalysisOf(list[k], t)

\* C11: a well-formed token without the stablecoin tag whose market cap is
\* within [min_cap, max_cap], whose volume is at least min_volume, whose age
\* is at least min_age, whose 1h, 24h and 7d changes are each at most the
\* limit in absolute value and whose quality score is at least
\* min_quality_score, each bound included, on the day the run begins, is
\* in the accepted list once analyze_tokens has processed it, and in the list
\* analyze_tokens returns.
C11_Complete ==
  /\ pc \in {"analyze", "sort"} =>
       \A j \in 1..(idx - 1) :
         Qualifies(filtered_tokens[j], risk, FirstDay)
           => Holds(analyzed_tokens, filtered_tokens[j])
  /\ \A c \in 1..Len(returns) : \A j \in 1..Len(filtered_tokens) :
       Qualifies(filtered_tokens[j], risk, FirstDay)
         => Holds(returns[c], filtered_tokens[j])

\* a returned token whose market cap is min_cap, whose age is min_age, whose
\* changes are at the limits and whose score is min_quality_score
C11_Witness ==
  /\ pc = "print" /\ Len(returns) = 1
  /\ \E j \in 1..Len(filtered_tokens) :
       LET t == filtered_tokens[j]
       IN  /\ Qualifies(t, risk, FirstDay)
           /\ Holds(returns[1], t)
           /\ t.market_cap.v = TokenAnalyzerInit.risk_ranges[risk][1]
           /\ FirstDay - t.date_added.v = TokenAnalyzerInit.min_age[risk]
           /\ \A tf \in {"1h", "24h", "7d"} :
                Abs(PercentChange(t, tf).v)
                  = TokenAnalyzerInit.max_volatility[risk][tf]
           /\ calculate_quality_score(TokenAnalyzerInit, t, risk, FirstDay)
                = RInt(TokenAnalyzerInit.min_quality_score[risk])

----------------------------------------------------------------------------
(* C12: the order of the checks and the counter of a rejection             *)

\* the 1h, 24h and 7d checks in this order, from position k on: a null
\* change is a filter error, a change over the limit a volatility rejection
RECURSIVE ClaimedVolatility(_, _, _)
ClaimedVolatility(t, r, k) ==
  IF k > 3 THEN "passed"
  ELSE LET tf == <<"1h", "24h", "7d">>[k]
           e  == PercentChange(t, tf)
       IN  IF e.st = "null" THEN "other"
           ELSE IF e.st = "val" /\ Abs(e.v) > TokenAnalyzerInit.max_volatility[r][tf]
                THEN "volatility"
           ELSE ClaimedVolatility(t, r, k + 1)

\* the counter the claim gives a token: the first check that fails in the
\* order stablecoin tag, market cap, volume, age, volatility, a check that
\* raises counting as a filter error under other; then the score
ClaimedCategory(t, r, now) ==
  IF ~NoStablecoinTag(t) THEN "other"
  ELSE IF ~IsVal(t.market_cap) THEN "other"
  ELSE IF ~(TokenAnalyzerInit.risk_ranges[r][1] <= t.market_cap.v
            /\ t.market_cap.v <= TokenAnalyzerInit.risk_ranges[r][2])
       THEN "market_cap"
  ELSE IF ~IsVal(t.volume_24h) THEN "other"
  ELSE IF t.volume_24h.v < TokenAnalyzerInit.min_volume[r] THEN "volume"
  ELSE IF ~IsVal(t.date_added) THEN "other"
  ELSE IF now - t.date_added.v < TokenAnalyzerInit.min_age[r] THEN "age"
  ELSE IF ClaimedVolatility(t, r, 1) # "passed" THEN ClaimedVolatility(t, r, 1)
  ELSE IF BelowMinimum(TokenAnalyzerInit, r,
                       calculate_quality_score(TokenAnalyzerInit, t, r, now),
                       FloatSide(t, r))
       THEN "quality_score"
  ELSE IF BuildRaises(t) THEN "other"
  ELSE "none"

\* C12: once analyze_tokens has processed its one token within a day, the
\* token is
\* counted under the category of the first check of initial_token_filter
\* that fails, in the order stablecoin tag, market cap, volume, age, 1h, 24h,
\* 7d change (market_cap, volume, age, volatility; the stablecoin tag and
\* filter errors under other), under quality_score when it passes the filter
\* and scores below min_quality_score (0 after a scoring error included),
\* and under no counter when it is accepted.
C12_FirstFailingCheck ==
  (pc \in {"sort", "print"} /\ Len(filtered_tokens) = 1 /\ SameDay) =>
    LET cat == ClaimedCategory(filtered_tokens[1], risk, FirstDay)
    IN  rejected_counts =
          IF cat = "none" THEN NoCounts ELSE [NoCounts EXCEPT ![cat] = 1]

----------------------------------------------------------------------------
(* C13: the accounting of analyze_tokens                                   *)

\* exactly one of the six counters went up by one, the others unchanged
OneCounterUp(before, after) ==
  \E c \in DOMAIN NoCounts : after = [before EXCEPT ![c] = @ + 1]

\* C13: each pass of the loop of analyze_tokens either appends the token to
\* the accepted list and leaves the counters alone, or leaves the list alone
\* and increments exactly one of the six rejection counters; so after each
\* token the counters and the number of accepted tokens sum to the number of
\* tokens processed, when the loop ends they sum to the length of the input
\* list, and so do the counters and the length of the returned list.
C13_Accounting ==
  [][ /\ (pc = "analyze" /\ idx' = idx + 1) =>
           /\ \/ /\ Len(analyzed_tokens') = Len(analyzed_tokens) + 1
                 /\ SubSeq(analyzed_tokens', 1, Len(analyzed_tokens)) = analyzed_tokens
                 /\ rejected_counts' = rejected_counts
              \/ /\ analyzed_tokens' = analyzed_tokens
                 /\ OneCounterUp(rejected_counts, rejected_counts')
           /\ SumCounts(rejected_counts') + Len(analyzed_tokens') = idx' - 1
           /\ pc' = "sort" =>
                SumCounts(rejected_counts') + Len(analyzed_tokens')
                  = Len(filtered_tokens)
      /\ (pc = "sort" /\ pc' = "print") =>
           SumCounts(rejected_counts') + Len(returns'[Len(returns')])
             = Len(filtered_tokens)
    ]_vars

\* a call on ten tokens or more that accepted some and rejected others
C13_Witness ==
  /\ pc = "print" /\ Len(returns) = 1
  /\ Len(filtered_tokens) >= 10
  /\ Len(returns[1]) >= 1
  /\ SumCounts(rejected_counts) >= 1
  /\ SumCounts(rejected_counts) + Len(returns[1]) = Len(filtered_tokens)

----------------------------------------------------------------------------
(* C14: what the filter leaves of the stability and age components         *)

\* C14: once analyze_tokens has processed a token that passes
\* initial_token_filter for the tier when the run begins, either calculate_quality_score raised
\* and returned 0, or its price-stability component and its age component
\* for the same tier and day are both exactly 20, the score it returned is
\* at least 40 and is 40 plus the market cap, volume and exchange listings
\* components, which alone decide the ranking.
C14_StabilityAndAgeFull ==
  (pc \in {"sort", "print"} /\ Len(filtered_tokens) = 1) =>
    LET t == filtered_tokens[1]
    IN  initial_token_filter(analyzer, t, risk, FirstDay).passed =>
          IF ScoreRaises(t) THEN quality_score = RInt(0)
          ELSE /\ StabilityScore(analyzer, t, risk) = RInt(20)
               /\ AgeScore(analyzer, t, risk, today) = RInt(20)
               /\ RLeq(RInt(40), quality_score)
               /\ quality_score =
                    RAdd(RInt(40),
                         RAdd(RAdd(MarketCapScore(analyzer, t, risk),
                                   VolumeScore(analyzer, t, risk)),
                              PairsScore(t, risk)))

\* a token at the minimum age and at the 24h and 7d limits of the tier
\* passed the filter and was scored without error
C14_Witness ==
  /\ pc = "print" /\ Len(filtered_tokens) = 1
  /\ LET t == filtered_tokens[1]
     IN  /\ initial_token_filter(analyzer, t, risk, FirstDay).passed
         /\ ~ScoreRaises(t)
         /\ FirstDay - t.date_added.v = analyzer.min_age[risk]
         /\ Abs(t.percent_change_24h.v) = analyzer.max_volatility[risk]["24h"]
         /\ Abs(t.percent_change_7d.v) = analyzer.max_volatility[risk]["7d"]
         /\ RLeq(RInt(40), quality_score)
         /\ RLess(quality_score, RInt(analyzer.min_quality_score[risk]))

====
